---- MODULE Spec2Model ----
(***************************************************************************)
(* Model of the gold-live price digest: GoldService (fetchAndNotifyPrices, *)
(* formatNumber, fetchWorldGoldPrice, fetchDojiPrice, fetchBaoTinPrice)    *)
(* and TelegramService.sendMessage.                                         *)
(*                                                                         *)
(* Representation of JavaScript values:                                    *)
(*   - a string is a sequence of fragments; a fragment is one character    *)
(*     ("1", ".") where the code looks inside the string (prices, names)    *)
(*     and a literal piece of a template ("  Mua: ") elsewhere;            *)
(*   - a text with line breaks is the sequence of its lines, i.e. what     *)
(*     split('\n') gives: the empty string is the one empty line << <<>> >>;*)
(*   - a value that may be undefined/null is a tagged record (JsUndef,     *)
(*     JsStr, JsNum);                                                      *)
(*   - a call either returns or throws: [kind |-> "return", val |-> v] or  *)
(*     [kind |-> "throw", err |-> e].                                        *)
(* Non-ASCII literals of the source are transliterated (Ban, Vang, ...).   *)
(***************************************************************************)
EXTENDS Integers, Sequences, FiniteSets, TLC

VARIABLES
    pc,         \* per cycle: the await the cycle is suspended at
    locals,     \* per activation frame: worldPrice, dojiPrices, btmcPrices
    attempted,  \* per cycle: the sources whose request was issued
    received,   \* per cycle and source: the upstream response received
    fetchRes,   \* per cycle and source: what the fetcher returned or threw
    sendCalls,  \* per cycle: the messages passed to sendMessage, in order
    sendFailed, \* per cycle: some sendMessage call of the cycle threw
    outcome,    \* per cycle: the promise of fetchAndNotifyPrices
    now,        \* the last time new Date() read
    input,      \* argument of the function under study (pure specifications)
    output,     \* its result
    stage       \* "in" before the call, "out" after it

vars == <<pc, locals, attempted, received, fetchRes, sendCalls, sendFailed,
          outcome, now, input, output, stage>>

cycleVars == <<pc, locals, attempted, received, fetchRes, sendCalls,
               sendFailed, outcome, now>>

pureVars == <<input, output, stage>>

----------------------------------------------------------------------------
(* Bounds *)

\* decimal places a number carries (numbers are integers scaled by 10^MaxFracDigits)
MaxFracDigits == 4

\* cycles the scheduler starts
NumCycles == 2

\* latest time the wall clock reads
MaxClock == 1

\* rows per DOJI row collection
MaxRows == 2

\* non-empty positional slots per field of a BTMC record
MaxPopulated == 2

----------------------------------------------------------------------------
(* Generic helpers *)

RECURSIVE Pow10(_)
Pow10(k) == IF k = 0 THEN 1 ELSE 10 * Pow10(k - 1)

RECURSIVE Concat(_)
\* concatenation of a sequence of sequences
Concat(ss) == IF ss = <<>> THEN <<>> ELSE Head(ss) \o Concat(Tail(ss))

RECURSIVE SelectSeqBy(_, _)
\* the subsequence of s at the indices of the set keep, in order
SelectSeqBy(s, keep) ==
    IF s = <<>> THEN <<>>
    ELSE LET n == Len(s)
             front == SelectSeqBy(SubSeq(s, 1, n - 1), keep)
         IN IF n \in keep THEN Append(front, s[n]) ELSE front

\* s includes sub as a contiguous substring
Includes(s, sub) ==
    \E i \in 0..(Len(s) - Len(sub)) : SubSeq(s, i + 1, i + Len(sub)) = sub

----------------------------------------------------------------------------
(* JavaScript values *)

JsUndef == [t |-> "undefined"]
JsStr(s) == [t |-> "string", s |-> s]
JsNum(n) == [t |-> "number", n |-> n]

\* truthiness, as || and ?: see it
Truthy(v) ==
    CASE v.t = "string" -> v.s # <<>>
      [] v.t = "number" -> v.n # 0
      [] OTHER -> FALSE

Return(v) == [kind |-> "return", val |-> v]
Throw(e) == [kind |-> "throw", err |-> e]

TypeError == [name |-> "TypeError", source |-> "", message |-> <<>>]
AxiosError(status, statusText) ==
    [name |-> "AxiosError", source |-> "", message |-> <<>>,
     status |-> status, statusText |-> statusText]

NewGoldPriceError(message, source) ==
    [name |-> "GoldPriceError", source |-> source, message |-> message]

IsGoldPriceError(e) == e.name = "GoldPriceError"
IsAxiosError(e) == e.name = "AxiosError"

----------------------------------------------------------------------------
(* GoldService.formatNumber *)

DigitChars == <<"0", "1", "2", "3", "4", "5", "6", "7", "8", "9">>
IsDigit(ch) == \E i \in 1..10 : DigitChars[i] = ch
\* \w of the regular expression; of the characters a price can hold only the
\* digits and the exponent letter are word characters
IsWord(ch) == IsDigit(ch) \/ ch \in {"e", "k", "_"}

RECURSIVE NatDigits(_)
\* decimal digits of a natural number
NatDigits(n) ==
    IF n < 10 THEN <<DigitChars[n + 1]>>
    ELSE Append(NatDigits(n \div 10), DigitChars[(n % 10) + 1])

RECURSIVE FracDigits(_, _)
\* the k-digit fraction f without its trailing zeros
FracDigits(f, k) ==
    IF f = 0 \/ k = 0 THEN <<>>
    ELSE <<DigitChars[(f \div Pow10(k - 1)) + 1]>>
             \o FracDigits(f % Pow10(k - 1), k - 1)

\* Number.prototype.toString of the non-negative number n / 10^MaxFracDigits
NumberToString(n) ==
    LET ip == n \div Pow10(MaxFracDigits)
        fp == n % Pow10(MaxFracDigits)
    IN NatDigits(ip)
         \o (IF fp = 0 THEN <<>> ELSE <<".">> \o FracDigits(fp, MaxFracDigits))

\* num.toString(): throws on undefined and null
ToStringThrows(v) == v.t \in {"undefined", "null"}
ToStringOf(v) == IF v.t = "number" THEN NumberToString(v.n) ELSE v.s

RECURSIVE DigitRun(_, _)
\* number of consecutive digits of s from position i on
DigitRun(s, i) ==
    IF i > Len(s) \/ ~IsDigit(s[i]) THEN 0 ELSE 1 + DigitRun(s, i + 1)

\* \B between s[i] and s[i+1] (i = 0: before the first character)
NonBoundary(s, i) ==
    IF i = 0 THEN ~IsWord(s[1])
    ELSE IsWord(s[i]) = IsWord(s[i + 1])

\* the pattern /\B(?=(\d{3})+(?!\d))/ matches between s[i] and s[i+1]
CommaAt(s, i) ==
    /\ i < Len(s)
    /\ NonBoundary(s, i)
    /\ DigitRun(s, i + 1) > 0
    /\ DigitRun(s, i + 1) % 3 = 0

\* numStr.replace(/\B(?=(\d{3})+(?!\d))/g, ',')
InsertCommas(s) ==
    IF s = <<>> THEN <<>>
    ELSE (IF CommaAt(s, 0) THEN <<",">> ELSE <<>>)
           \o Concat([i \in 1..Len(s) |->
                        IF CommaAt(s, i) THEN <<s[i], ",">> ELSE <<s[i]>>])

formatNumberThrows(num) == ToStringThrows(num)
formatNumber(num) == InsertCommas(ToStringOf(num))

----------------------------------------------------------------------------
(* Upstream responses and axios.get *)

OkResponse(data) == [t |-> "ok", data |-> data]
\* a non-2xx answer: axios rejects with an AxiosError carrying the response
HttpError(status, statusText) ==
    [t |-> "http", status |-> status, statusText |-> statusText]
\* no answer at all: the AxiosError has no response, so error.response?.status
\* and error.response?.statusText are undefined
NetworkError == [t |-> "network", status |-> "undefined",
                 statusText |-> "undefined"]
NoResponse == [t |-> "none"]

AxiosGet(resp) ==
    IF resp.t = "ok" THEN Return(resp)
    ELSE Throw(AxiosError(resp.status, resp.statusText))

\* the catch block shared by the three fetchers
WrapError(e, source, generic) ==
    IF IsAxiosError(e)
    THEN NewGoldPriceError(<<"API Error: ", e.status, " - ", e.statusText>>,
                           source)
    ELSE NewGoldPriceError(<<generic>>, source)

----------------------------------------------------------------------------
(* GoldService.fetchWorldGoldPrice *)

\* body of the try block: response.data.price
WorldTry(resp) ==
    LET got == AxiosGet(resp)
    IN IF got.kind = "throw" THEN got
       ELSE IF resp.data.t # "object" THEN Throw(TypeError)
       ELSE Return(resp.data.price)

fetchWorldGoldPrice(resp) ==
    LET r == WorldTry(resp)
    IN IF r.kind = "return" THEN r
       ELSE Throw(WrapError(r.err, "World Gold",
                            "Failed to fetch world gold price"))

----------------------------------------------------------------------------
(* GoldService.fetchDojiPrice *)

\* array.join('\n') of texts: the empty array joins to the empty string
JoinLines(texts) == IF texts = <<>> THEN << <<>> >> ELSE Concat(texts)

\* `${a}\n${b}`
TwoLines(a, b) == a \o b

NameDOJI == <<"D", "O", "J", "I">>
Name24k == <<"2", "4", "k">>
Name9999 == <<"9", "9", "9", "9">>

\* row.$.Name.includes(...) throws on a row without a Name attribute
RowNameThrows(row) == row.Name.t # "string"
IsBrandRow(row) == Includes(row.Name.s, NameDOJI)
IsPurityRow(row) ==
    Includes(row.Name.s, Name24k) \/ Includes(row.Name.s, Name9999)

\* the template of one row: name line, buy line, sell line
RowBlockThrows(row) == formatNumberThrows(row.Buy) \/ formatNumberThrows(row.Sell)
RowBlock(row) ==
    << <<"- ">> \o row.Name.s \o <<":">>,
       <<"  Mua: ">> \o formatNumber(row.Buy) \o <<" VND">>,
       <<"  Ban: ">> \o formatNumber(row.Sell) \o <<" VND">> >>

\* the indices the two filter callbacks keep
BrandIdx(rows) == {i \in 1..Len(rows) : IsBrandRow(rows[i])}
PurityIdx(rows) == {i \in 1..Len(rows) : IsPurityRow(rows[i])}

\* rows.filter(...).map(block).join('\n'), keep being the indices kept
Segment(rows, keep) ==
    LET kept == SelectSeqBy(rows, keep)
    IN JoinLines([i \in 1..Len(kept) |-> RowBlock(kept[i])])

\* the filter callback throws on a row without a name, the map callback on a
\* kept row without a price
FilterThrows(rows) == \E i \in 1..Len(rows) : RowNameThrows(rows[i])
MapThrows(rows, keep) == \E i \in keep : RowBlockThrows(rows[i])

\* body of the try block
DojiTry(resp) ==
    LET got == AxiosGet(resp)
    IN IF got.kind = "throw" THEN got
       ELSE IF ~resp.data.wellFormed THEN Throw(TypeError)
       ELSE IF ~resp.data.hasGoldList THEN Throw(TypeError)
       ELSE IF FilterThrows(resp.data.DGPlist) THEN Throw(TypeError)
       ELSE IF MapThrows(resp.data.DGPlist, BrandIdx(resp.data.DGPlist))
            THEN Throw(TypeError)
       ELSE IF FilterThrows(resp.data.JewelryList) THEN Throw(TypeError)
       ELSE IF MapThrows(resp.data.JewelryList, PurityIdx(resp.data.JewelryList))
            THEN Throw(TypeError)
       ELSE Return(TwoLines(
                Segment(resp.data.DGPlist, BrandIdx(resp.data.DGPlist)),
                Segment(resp.data.JewelryList, PurityIdx(resp.data.JewelryList))))

fetchDojiPrice(resp) ==
    LET r == DojiTry(resp)
    IN IF r.kind = "return" THEN r
       ELSE Throw(WrapError(r.err, "DOJI", "Failed to fetch DOJI prices"))

----------------------------------------------------------------------------
(* GoldService.fetchBaoTinPrice *)

\* positional key variants @x_1 .. @x_5
NumSlots == 5
Slots == 1..NumSlots
Prefixes == {"@n_", "@k_", "@h_", "@pb_", "@ps_"}

RECURSIVE OrFrom(_, _, _)
\* item[p1] || item[p2] || ... from slot i on: the first truthy operand, else
\* the last one; item[p][i] is the value under the key p followed by i
OrFrom(item, p, i) ==
    IF i = NumSlots \/ Truthy(item[p][i]) THEN item[p][i]
    ELSE OrFrom(item, p, i + 1)

\* a faulty variant: the populated slot is found once, from the name, and every
\* field is read under it
OrChainAtNameSlot(item, p) ==
    LET named == {i \in Slots : Truthy(item["@n_"][i])}
    IN IF named = {} THEN item[p][NumSlots]
       ELSE item[p][CHOOSE i \in named : \A j \in named : i <= j]

\* item['@x_1'] || item['@x_2'] || item['@x_3'] || item['@x_4'] || item['@x_5']
OrChain(item, p) == OrFrom(item, p, 1)

ResolveName(item) == OrChain(item, "@n_")
ResolveKarat(item) == OrChain(item, "@k_")
ResolvePurity(item) == OrChain(item, "@h_")
ResolveBuy(item) == OrChain(item, "@pb_")
ResolveSell(item) == OrChain(item, "@ps_")

NameSJC == <<"S", "J", "C">>
Karat24k == <<"2", "4", "k">>
Purity9999 == <<"9", "9", "9", ".", "9">>

\* name?.includes('SJC')
NameHasSJC(item) ==
    LET name == ResolveName(item)
    IN name.t = "string" /\ Includes(name.s, NameSJC)

\* the filter callback
BtmcKeeps(item) ==
    \/ NameHasSJC(item)
    \/ /\ ResolveKarat(item) = JsStr(Karat24k)
       /\ ResolvePurity(item) = JsStr(Purity9999)

BtmcKeptIdx(items) == {i \in 1..Len(items) : BtmcKeeps(items[i])}

\* the map callback
BtmcBlockThrows(item) ==
    formatNumberThrows(ResolveBuy(item)) \/ formatNumberThrows(ResolveSell(item))
BtmcBlock(item) ==
    << <<"- ", IF NameHasSJC(item) THEN "SJC" ELSE "Vang 24K (999.9)", ":">>,
       <<"  Mua: ">> \o formatNumber(ResolveBuy(item)) \o <<" VND">>,
       <<"  Ban: ">> \o formatNumber(ResolveSell(item)) \o <<" VND">> >>

\* body of the try block
BtmcTry(resp) ==
    LET got == AxiosGet(resp)
    IN IF got.kind = "throw" THEN got
       ELSE IF ~resp.data.hasDataList THEN Throw(TypeError)
       ELSE LET prices == SelectSeqBy(resp.data.Data, BtmcKeptIdx(resp.data.Data))
            IN IF \E i \in 1..Len(prices) : BtmcBlockThrows(prices[i])
               THEN Throw(TypeError)
               ELSE Return(JoinLines([i \in 1..Len(prices) |->
                                        BtmcBlock(prices[i])]))

fetchBaoTinPrice(resp) ==
    LET r == BtmcTry(resp)
    IN IF r.kind = "return" THEN r
       ELSE Throw(WrapError(r.err, "BTMC", "Failed to fetch BTMC prices"))

----------------------------------------------------------------------------
(* TelegramService.sendMessage *)

\* throws when TELEGRAM_CHAT_ID is not defined or when bot.sendMessage
\* rejects; the catch block logs and rethrows
sendMessage(message, chatIdDefined, botOk) ==
    IF ~chatIdDefined THEN Throw([name |-> "Error", source |-> "",
                                  message |-> <<"TELEGRAM_CHAT_ID is not defined">>])
    ELSE IF ~botOk THEN Throw([name |-> "Error", source |-> "",
                               message |-> <<"bot.sendMessage rejected">>])
    ELSE Return(message)

----------------------------------------------------------------------------
(* GoldService.fetchAndNotifyPrices: the messages *)

LabelWorld == "World Gold Price: $"
LabelDoji == "DOJI:"
LabelBtmc == "Bao Tin Minh Chau:"

\* a faulty variant: the two local sections carry each other's prices
ComposeReportSwapped(ts, worldPrice, dojiPrices, btmcPrices) ==
    << <<>>,
       <<"Gold Prices Update (">> \o NatDigits(ts) \o <<")">>,
       <<>>,
       <<LabelWorld>> \o formatNumber(worldPrice) \o <<"/oz">>,
       <<>>,
       <<"Local Gold Shops:">>,
       <<>>,
       <<LabelDoji>> >>
    \o btmcPrices
    \o << <<>>, <<LabelBtmc>> >>
    \o dojiPrices
    \o << <<"      ">> >>

\* the template literal of the report, line by line
ComposeReport(ts, worldPrice, dojiPrices, btmcPrices) ==
    << <<>>,
       <<"Gold Prices Update (">> \o NatDigits(ts) \o <<")">>,
       <<>>,
       <<LabelWorld>> \o formatNumber(worldPrice) \o <<"/oz">>,
       <<>>,
       <<"Local Gold Shops:">>,
       <<>>,
       <<LabelDoji>> >>
    \o dojiPrices
    \o << <<>>, <<LabelBtmc>> >>
    \o btmcPrices
    \o << <<"      ">> >>

\* a faulty variant: the notice names the error's class instead of its source
WarningOfName(e) ==
    << <<"Error fetching ", e.name, " prices: ">> \o e.message >>

\* `Error fetching ${error.source} prices: ${error.message}`
WarningOf(e) ==
    << <<"Error fetching ", e.source, " prices: ">> \o e.message >>

\* the catch block of fetchAndNotifyPrices: a GoldPriceError is reported
\* through sendMessage, anything else is logged and dropped
AfterCatch(e) ==
    IF IsGoldPriceError(e)
    THEN [pc |-> "awaitSendWarning", send |-> <<WarningOf(e)>>,
          outcome |-> "pending"]
    ELSE [pc |-> "done", send |-> <<>>, outcome |-> "resolved"]

----------------------------------------------------------------------------
(* The upstream answers a cycle can receive *)

Sources == {"World Gold", "DOJI", "BTMC"}
Cycles == 1..NumCycles

Scaled(ip, cents) == ip * Pow10(MaxFracDigits) + cents * Pow10(MaxFracDigits - 2)

WorldData(price) == [t |-> "object", price |-> price]
WorldResponses ==
    {OkResponse(WorldData(JsNum(Scaled(1234, 56)))),
     OkResponse(WorldData(JsNum(Scaled(2000, 0)))),
     OkResponse(WorldData(JsUndef)),
     OkResponse([t |-> "null", price |-> JsUndef]),
     HttpError("401", "Unauthorized")}

Row(name, buy, sell) == [Name |-> name, Buy |-> buy, Sell |-> sell]
DojiDoc(dgp, jewelry) ==
    [wellFormed |-> TRUE, hasGoldList |-> TRUE, DGPlist |-> dgp,
     JewelryList |-> jewelry]
MalformedDoc ==
    [wellFormed |-> FALSE, hasGoldList |-> FALSE, DGPlist |-> <<>>,
     JewelryList |-> <<>>]
NoGoldListDoc ==
    [wellFormed |-> TRUE, hasGoldList |-> FALSE, DGPlist |-> <<>>,
     JewelryList |-> <<>>]

Price8450 == <<"8", "4", "5", "0", "0", "0", "0", "0">>
Price8600 == <<"8", "6", "0", "0", "0", "0", "0", "0">>
Price8300 == <<"8", "3", "0", "0">>
Price8400 == <<"8", "4", "0", "0">>

RowDojiHN == Row(JsStr(<<"D", "O", "J", "I", " ", "H", "N">>),
                 JsStr(Price8450), JsStr(Price8600))
RowDojiSG == Row(JsStr(<<"D", "O", "J", "I", " ", "S", "G">>),
                 JsStr(Price8400), JsStr(Price8600))
RowSJC == Row(JsStr(<<"S", "J", "C">>), JsStr(Price8450), JsStr(Price8600))
Row24k == Row(JsStr(<<"N", "u", " ", "2", "4", "k">>),
              JsStr(Price8300), JsStr(Price8400))
Row9999 == Row(JsStr(<<"9", "9", "9", "9">>), JsStr(Price8400), JsStr(Price8450))
Row18k == Row(JsStr(<<"1", "8", "k">>), JsStr(Price8300), JsStr(Price8300))
RowNoBuy == Row(JsStr(<<"D", "O", "J", "I", " ", "2", "4", "k">>),
                JsUndef, JsStr(Price8400))
RowNoName == Row(JsUndef, JsStr(Price8300), JsStr(Price8400))

DojiResponses ==
    {OkResponse(DojiDoc(<<RowDojiHN, RowSJC>>, <<Row18k, Row24k>>)),
     NetworkError}

\* a record: for each field the values under its five positional keys (an
\* absent key reads as undefined)
Item(name, karat, purity, buy, sell) ==
    [p \in Prefixes |->
       CASE p = "@n_" -> name
         [] p = "@k_" -> karat
         [] p = "@h_" -> purity
         [] p = "@pb_" -> buy
         [] OTHER -> sell]
OnlyAt(i, v) == [j \in Slots |-> IF j = i THEN v ELSE JsUndef]

ItemSJC == Item(OnlyAt(1, JsStr(<<"V", "M", " ", "S", "J", "C">>)),
                OnlyAt(1, JsStr(Karat24k)), OnlyAt(1, JsStr(Purity9999)),
                OnlyAt(1, JsStr(Price8450)), OnlyAt(1, JsStr(Price8600)))
ItemRing == Item(OnlyAt(2, JsStr(<<"N", "H", "A", "N">>)),
                 OnlyAt(2, JsStr(Karat24k)), OnlyAt(2, JsStr(Purity9999)),
                 OnlyAt(2, JsStr(Price8300)), OnlyAt(2, JsStr(Price8400)))
Item18k == Item(OnlyAt(3, JsStr(<<"1", "8", "k">>)),
                OnlyAt(3, JsStr(<<"1", "8", "k">>)),
                OnlyAt(3, JsStr(<<"7", "5", "0">>)),
                OnlyAt(3, JsStr(Price8300)), OnlyAt(3, JsStr(Price8300)))

BtmcData(items) == [hasDataList |-> TRUE, Data |-> items]
NoDataList == [hasDataList |-> FALSE, Data |-> <<>>]

BtmcResponses ==
    {OkResponse(BtmcData(<<ItemSJC, Item18k, ItemRing>>)),
     OkResponse(NoDataList)}

----------------------------------------------------------------------------
(* GoldService.fetchAndNotifyPrices, one activation per cron tick *)

NoResult == [kind |-> "none"]
NoLocals == [worldPrice |-> JsUndef, dojiPrices |-> <<>>, btmcPrices |-> <<>>]

\* a faulty variant: the fetched values are kept in fields of the service, which
\* all activations share
SharedFrame(c) == 1

\* worldPrice, dojiPrices and btmcPrices are consts of the activation
Frame(c) == c

PureIdle == input = "none" /\ output = "none" /\ stage = "idle"

CycleInit ==
    /\ pc = [c \in Cycles |-> "idle"]
    /\ locals = [c \in Cycles |-> NoLocals]
    /\ attempted = [c \in Cycles |-> {}]
    /\ received = [c \in Cycles |-> [s \in Sources |-> NoResponse]]
    /\ fetchRes = [c \in Cycles |-> [s \in Sources |-> NoResult]]
    /\ sendCalls = [c \in Cycles |-> <<>>]
    /\ sendFailed = [c \in Cycles |-> FALSE]
    /\ outcome = [c \in Cycles |-> "pending"]
    /\ now = 0

Init == CycleInit /\ PureIdle

\* the handling of a throw inside the try block
Caught(c, e) ==
    /\ pc' = [pc EXCEPT ![c] = AfterCatch(e).pc]
    /\ sendCalls' = [sendCalls EXCEPT ![c] = @ \o AfterCatch(e).send]
    /\ outcome' = [outcome EXCEPT ![c] = AfterCatch(e).outcome]
    /\ UNCHANGED <<locals, attempted>>

\* @Cron('*/10 * * * *'): the scheduler starts an activation whether or not
\* earlier ones have finished; the activation runs to its first await
CronFire(c) ==
    /\ pc[c] = "idle"
    /\ \A d \in Cycles : d < c => pc[d] # "idle"
    /\ pc' = [pc EXCEPT ![c] = "awaitWorld"]
    /\ attempted' = [attempted EXCEPT ![c] = @ \cup {"World Gold"}]
    /\ UNCHANGED <<locals, received, fetchRes, sendCalls, sendFailed, outcome,
                   now, pureVars>>

\* await this.fetchWorldGoldPrice() settles; runs to the next await
WorldResponds(c) ==
    /\ pc[c] = "awaitWorld"
    /\ \E resp \in WorldResponses :
         LET r == fetchWorldGoldPrice(resp)
         IN /\ received' = [received EXCEPT ![c]["World Gold"] = resp]
            /\ fetchRes' = [fetchRes EXCEPT ![c]["World Gold"] = r]
            /\ IF r.kind = "throw" THEN Caught(c, r.err)
               ELSE IF formatNumberThrows(r.val) THEN Caught(c, TypeError)
               ELSE /\ locals' = [locals EXCEPT ![Frame(c)].worldPrice = r.val]
                    /\ attempted' = [attempted EXCEPT ![c] = @ \cup {"DOJI"}]
                    /\ pc' = [pc EXCEPT ![c] = "awaitDoji"]
                    /\ UNCHANGED <<sendCalls, outcome>>
    /\ UNCHANGED <<sendFailed, now, pureVars>>

\* await this.fetchDojiPrice() settles
DojiResponds(c) ==
    /\ pc[c] = "awaitDoji"
    /\ \E resp \in DojiResponses :
         LET r == fetchDojiPrice(resp)
         IN /\ received' = [received EXCEPT ![c]["DOJI"] = resp]
            /\ fetchRes' = [fetchRes EXCEPT ![c]["DOJI"] = r]
            /\ IF r.kind = "throw" THEN Caught(c, r.err)
               ELSE /\ locals' = [locals EXCEPT ![Frame(c)].dojiPrices = r.val]
                    /\ attempted' = [attempted EXCEPT ![c] = @ \cup {"BTMC"}]
                    /\ pc' = [pc EXCEPT ![c] = "awaitBtmc"]
                    /\ UNCHANGED <<sendCalls, outcome>>
    /\ UNCHANGED <<sendFailed, now, pureVars>>

\* await this.fetchBaoTinPrice() settles; on success the report is composed
\* with the time new Date() reads, which is not before the last time read,
\* and handed to sendMessage
BtmcResponds(c) ==
    /\ pc[c] = "awaitBtmc"
    /\ \E resp \in BtmcResponses :
         LET r == fetchBaoTinPrice(resp)
         IN /\ received' = [received EXCEPT ![c]["BTMC"] = resp]
            /\ fetchRes' = [fetchRes EXCEPT ![c]["BTMC"] = r]
            /\ IF r.kind = "throw" THEN Caught(c, r.err) /\ UNCHANGED now
               ELSE /\ locals' = [locals EXCEPT ![Frame(c)].btmcPrices = r.val]
                    /\ \E ts \in now..MaxClock :
                         /\ now' = ts
                         /\ sendCalls' =
                              [sendCalls EXCEPT ![c] =
                                 Append(@, ComposeReport(ts,
                                             locals'[Frame(c)].worldPrice,
                                             locals'[Frame(c)].dojiPrices,
                                             locals'[Frame(c)].btmcPrices))]
                    /\ pc' = [pc EXCEPT ![c] = "awaitSendReport"]
                    /\ UNCHANGED <<attempted, outcome>>
    /\ UNCHANGED <<sendFailed, pureVars>>

\* await sendMessage(message) of the try block settles: a rejection lands in
\* the catch block of fetchAndNotifyPrices
ReportSendSettles(c) ==
    /\ pc[c] = "awaitSendReport"
    /\ \E chatIdDefined \in BOOLEAN, botOk \in BOOLEAN :
         LET r == sendMessage(sendCalls[c][Len(sendCalls[c])], chatIdDefined, botOk)
         IN IF r.kind = "throw"
            THEN /\ sendFailed' = [sendFailed EXCEPT ![c] = TRUE]
                 /\ Caught(c, r.err)
            ELSE /\ pc' = [pc EXCEPT ![c] = "done"]
                 /\ outcome' = [outcome EXCEPT ![c] = "resolved"]
                 /\ UNCHANGED <<sendFailed, sendCalls, locals, attempted>>
    /\ UNCHANGED <<received, fetchRes, now, pureVars>>

\* await sendMessage(warning) of the catch block settles: a rejection leaves
\* fetchAndNotifyPrices
WarningSendSettles(c) ==
    /\ pc[c] = "awaitSendWarning"
    /\ \E chatIdDefined \in BOOLEAN, botOk \in BOOLEAN :
         LET r == sendMessage(sendCalls[c][Len(sendCalls[c])], chatIdDefined, botOk)
         IN /\ pc' = [pc EXCEPT ![c] = "done"]
            /\ sendFailed' = [sendFailed EXCEPT ![c] = (r.kind = "throw")]
            /\ outcome' = [outcome EXCEPT ![c] =
                             IF r.kind = "throw" THEN "rejected" ELSE "resolved"]
    /\ UNCHANGED <<locals, attempted, received, fetchRes, sendCalls, now,
                   pureVars>>

Next ==
    \/ \E c \in Cycles : CronFire(c)
    \/ \E c \in Cycles : WorldResponds(c)
    \/ \E c \in Cycles : DojiResponds(c)
    \/ \E c \in Cycles : BtmcResponds(c)
    \/ \E c \in Cycles : ReportSendSettles(c)
    \/ \E c \in Cycles : WarningSendSettles(c)

Spec == Init /\ [][Next]_vars

----------------------------------------------------------------------------
(* formatNumber on its own: SpecFmt *)

\* digits of the integer part of a formatNumber input
MaxIntLen == 4

SeqsUpTo(S, n) == UNION {[1..k -> S] : k \in 0..n}

DigitPool == {"0", "1", "7"}
\* decimal integers without a leading zero
IntStrings ==
    {s \in SeqsUpTo(DigitPool, MaxIntLen) :
        Len(s) >= 1 /\ (s[1] = "0" => Len(s) = 1)}
FracStrings == SeqsUpTo(DigitPool, MaxFracDigits)
DecimalStrings ==
    {i \o (IF f = <<>> THEN <<>> ELSE <<".">> \o f) :
        i \in IntStrings, f \in FracStrings}
DecimalNumbers ==
    {ip * Pow10(MaxFracDigits) + fp :
        ip \in {0, 12, 999, 1000, 12345},
        fp \in {0, 1, Pow10(MaxFracDigits) \div 2, 89 * Pow10(MaxFracDigits - 2),
                5678 * Pow10(MaxFracDigits - 4)}}

FmtInputs ==
    {JsStr(s) : s \in DecimalStrings} \cup {JsNum(n) : n \in DecimalNumbers}
        \cup {JsUndef}

InitFmt ==
    /\ CycleInit
    /\ input \in FmtInputs
    /\ output = <<>>
    /\ stage = "in"

CallFormatNumber ==
    /\ stage = "in"
    /\ IF formatNumberThrows(input)
       THEN output' = <<>> /\ stage' = "threw"
       ELSE output' = formatNumber(input) /\ stage' = "out"
    /\ UNCHANGED <<input, cycleVars>>

NextFmt == CallFormatNumber

SpecFmt == InitFmt /\ [][NextFmt]_vars

----------------------------------------------------------------------------
(* fetchDojiPrice on its own: SpecDoji *)

DgpPool == {RowDojiHN, RowDojiSG, RowSJC, RowNoBuy}
JewelryPool == {Row24k, Row9999, Row18k, RowNoName}

DojiInputs ==
    {OkResponse(DojiDoc(d, j)) :
        d \in SeqsUpTo(DgpPool, MaxRows), j \in SeqsUpTo(JewelryPool, MaxRows)}
      \cup {OkResponse(MalformedDoc), OkResponse(NoGoldListDoc),
            HttpError("503", "Service Unavailable"), NetworkError}

InitDoji ==
    /\ CycleInit
    /\ input \in DojiInputs
    /\ output = NoResult
    /\ stage = "in"

CallFetchDoji ==
    /\ stage = "in"
    /\ output' = fetchDojiPrice(input)
    /\ stage' = "out"
    /\ UNCHANGED <<input, cycleVars>>

NextDoji == CallFetchDoji

SpecDoji == InitDoji /\ [][NextDoji]_vars

----------------------------------------------------------------------------
(* fetchBaoTinPrice on its own: SpecBtmc *)

SlotSets == {S \in SUBSET Slots : Cardinality(S) <= MaxPopulated}

SlotChar(i) == DigitChars[i + 1]

\* the value a field holds under slot i: it tells the slots apart.  Names
\* carry the SJC marker, grades the top tokens, in the slots of `marked`
SlotValue(p, i, marked) ==
    CASE p = "@n_" -> JsStr((IF i \in marked THEN NameSJC ELSE <<"N", "H">>)
                              \o <<" ", SlotChar(i)>>)
      [] p = "@k_" -> JsStr(IF i \in marked THEN Karat24k ELSE <<"1", "8", "k">>)
      [] p = "@h_" -> JsStr(IF i \in marked THEN Purity9999 ELSE <<"7", "5", "0">>)
      [] p = "@pb_" -> JsStr(<<"8", SlotChar(i), "0", "0", "0">>)
      [] OTHER -> JsStr(<<"9", SlotChar(i), "0", "0", "0", "0">>)

\* field p populated exactly in the slots of S; the other slots read `blank`
Populated(p, S, marked, blank) ==
    [i \in Slots |-> IF i \in S THEN SlotValue(p, i, marked) ELSE blank]

\* a record whose field `focus` is populated in the slots S and whose other
\* fields are populated in the one slot s
FocusItem(focus, S, s, nameMarked, gradeMarked, blank) ==
    [p \in Prefixes |->
       Populated(p, IF p = focus THEN S ELSE {s},
                 IF p = "@n_" THEN nameMarked ELSE gradeMarked, blank)]

OddSlots == {i \in Slots : i % 2 = 1}
EvenSlots == Slots \ OddSlots

BtmcItems ==
    {FocusItem(focus, S, s, nm, gm, blank) :
        focus \in Prefixes, S \in SlotSets, s \in Slots,
        nm \in {OddSlots, EvenSlots}, gm \in {OddSlots, EvenSlots},
        blank \in {JsUndef, JsStr(<<>>)}}

BtmcInputs ==
    {OkResponse(BtmcData(<<it>>)) : it \in BtmcItems}
      \cup {OkResponse(BtmcData(<<ItemRing, it>>)) : it \in BtmcItems}
      \cup {OkResponse(NoDataList), HttpError("500", "Internal Server Error"),
            NetworkError}

InitBtmc ==
    /\ CycleInit
    /\ input \in BtmcInputs
    /\ output = NoResult
    /\ stage = "in"

CallFetchBaoTin ==
    /\ stage = "in"
    /\ output' = fetchBaoTinPrice(input)
    /\ stage' = "out"
    /\ UNCHANGED <<input, cycleVars>>

NextBtmc == CallFetchBaoTin

SpecBtmc == InitBtmc /\ [][NextBtmc]_vars

----------------------------------------------------------------------------
(* Reading the messages back *)

IsWarningMsg(m) == Len(m) = 1 /\ Len(m[1]) >= 3 /\ m[1][1] = "Error fetching "
IsReportMsg(m) ==
    Len(m) >= 2 /\ Len(m[2]) >= 1 /\ m[2][1] = "Gold Prices Update ("

\* a fetch that returned what its contract promises
ValidValue(s, v) == IF s = "World Gold" THEN v.t = "number" ELSE TRUE

Failed(c, s) ==
    fetchRes[c][s].kind = "throw" /\ IsGoldPriceError(fetchRes[c][s].err)

AllSucceeded(c) ==
    \A s \in Sources :
        fetchRes[c][s].kind = "return" /\ ValidValue(s, fetchRes[c][s].val)

----------------------------------------------------------------------------
(* Claims checked under Spec *)

\* C1: in every cycle, when the fetch of a source fails, the fetches of the
\* two other sources are still attempted in that cycle.
C1_FailureIsolation ==
    \A c \in Cycles : \A s \in Sources :
        (pc[c] = "done" /\ fetchRes[c][s].kind = "throw")
            => attempted[c] = Sources

\* C2: every cycle invokes sendMessage exactly once before it ends, whatever
\* the outcomes of the three fetches, a payload without `price` included.
C2_ExactlyOneNotification ==
    \A c \in Cycles : pc[c] = "done" => Len(sendCalls[c]) = 1

\* C3: in a cycle in which a fetch raises a GoldPriceError no report is sent,
\* the one warning sent is 'Error fetching <source> prices: <message>' with
\* the tag of the source whose fetch failed and that failure's message, and
\* no warning names a source that succeeded or was not attempted.
C3_WarningNamesFailedSource ==
    \A c \in Cycles :
        /\ \A s \in Sources :
             Failed(c, s) =>
               sendCalls[c] =
                 << << <<"Error fetching ", s, " prices: ">>
                         \o fetchRes[c][s].err.message >> >>
        /\ \A i \in 1..Len(sendCalls[c]) :
             IsWarningMsg(sendCalls[c][i]) =>
               \E s \in attempted[c] :
                   Failed(c, s) /\ sendCalls[c][i][1][2] = s

C3_Witness ==
    \E c \in Cycles :
        /\ pc[c] = "done"
        /\ Failed(c, "DOJI")
        /\ Len(sendCalls[c]) = 1
        /\ IsWarningMsg(sendCalls[c][1])

\* C4: each fetcher either returns a valid normalized value (a number for the
\* world source) or raises a GoldPriceError tagged with its own source name.
C4_FetcherContract ==
    \A c \in Cycles : \A s \in Sources :
        /\ fetchRes[c][s].kind = "return" => ValidValue(s, fetchRes[c][s].val)
        /\ fetchRes[c][s].kind = "throw" =>
             IsGoldPriceError(fetchRes[c][s].err) /\ fetchRes[c][s].err.source = s

\* C5: when sendMessage fails during a cycle it is not invoked again in that
\* cycle, and the failure leaves fetchAndNotifyPrices as a rejection.
C5_SendFailurePropagates ==
    \A c \in Cycles :
        (pc[c] = "done" /\ sendFailed[c])
            => Len(sendCalls[c]) = 1 /\ outcome[c] = "rejected"

\* the lines of m from index i on start with the lines of text
SectionAt(m, i, text) ==
    i + Len(text) <= Len(m) /\ SubSeq(m, i + 1, i + Len(text)) = text

\* C6: when all three fetches of a cycle succeed, the one report sent holds
\* the world price first, then the DOJI section, then the Bao Tin Minh Chau
\* section, each with the value that source's fetch returned in that cycle.
C6_ReportLayout ==
    \A c \in Cycles :
        AllSucceeded(c) =>
          /\ Len(sendCalls[c]) = 1
          /\ IsReportMsg(sendCalls[c][1])
          /\ LET m == sendCalls[c][1]
                 dv == fetchRes[c]["DOJI"].val
                 bv == fetchRes[c]["BTMC"].val
             IN \E id \in 1..Len(m) :
                  /\ m[id] = <<LabelDoji>>
                  /\ SectionAt(m, id, dv)
                  /\ \A j \in 1..Len(m) : m[j] = <<LabelDoji>> => j = id
                  /\ \E iw \in 1..(id - 1) :
                       m[iw] = <<LabelWorld>>
                                 \o formatNumber(fetchRes[c]["World Gold"].val)
                                 \o <<"/oz">>
                  /\ \E ib \in (id + Len(dv) + 1)..Len(m) :
                       /\ m[ib] = <<LabelBtmc>>
                       /\ SectionAt(m, ib, bv)
                       /\ \A j \in 1..Len(m) : m[j] = <<LabelBtmc>> => j = ib

C6_Witness ==
    \E c \in Cycles :
        /\ pc[c] = "done"
        /\ AllSucceeded(c)
        /\ ~sendFailed[c]
        /\ fetchRes[c]["DOJI"].val # fetchRes[c]["BTMC"].val

\* what a cycle that received the responses rs sends, computed from rs alone
OwnNotification(rs, ts) ==
    LET w == fetchWorldGoldPrice(rs["World Gold"])
        d == fetchDojiPrice(rs["DOJI"])
        b == fetchBaoTinPrice(rs["BTMC"])
    IN IF w.kind = "throw" THEN <<WarningOf(w.err)>>
       ELSE IF formatNumberThrows(w.val) THEN <<>>
       ELSE IF d.kind = "throw" THEN <<WarningOf(d.err)>>
       ELSE IF b.kind = "throw" THEN <<WarningOf(b.err)>>
       ELSE <<ComposeReport(ts, w.val, d.val, b.val)>>

\* a message without its timestamp
StripTs(m) ==
    IF IsReportMsg(m) THEN [m EXCEPT ![2] = <<"Gold Prices Update (", ")">>]
    ELSE m
Bodies(ms) == [i \in 1..Len(ms) |-> StripTs(ms[i])]

Settled(c) == pc[c] \in {"awaitSendReport", "awaitSendWarning", "done"}

\* C7: the notification of a cycle is a function of the responses that cycle
\* received: two cycles with identical upstream payloads send notifications
\* identical except for the timestamp, also when they overlap, and no cycle
\* reports another cycle's fetch results.
C7_NoCrossCycleState ==
    /\ \A c \in Cycles :
         Settled(c) => Bodies(sendCalls[c]) = Bodies(OwnNotification(received[c], 0))
    /\ \A c, d \in Cycles :
         (Settled(c) /\ Settled(d) /\ received[c] = received[d])
             => Bodies(sendCalls[c]) = Bodies(sendCalls[d])

\* two overlapping cycles, both suspended at the send of their report, with
\* identical payloads and different timestamps
C7_Witness ==
    /\ NumCycles >= 2
    /\ pc[1] = "awaitSendReport"
    /\ pc[2] = "awaitSendReport"
    /\ received[1] = received[2]
    /\ sendCalls[1] # sendCalls[2]

----------------------------------------------------------------------------
(* Claim checked under SpecBtmc *)

NonEmptyVal(v) == v.t = "string" /\ v.s # <<>>
HasValue(item, p) == \E i \in Slots : NonEmptyVal(item[p][i])
\* the lowest-numbered slot of field p that holds a non-empty value
LowestSlot(item, p) ==
    CHOOSE i \in Slots :
        NonEmptyVal(item[p][i]) /\ \A j \in Slots : j < i => ~NonEmptyVal(item[p][j])
Lowest(item, p) == item[p][LowestSlot(item, p)]

\* what the code resolves for field p
Resolved(item, p) ==
    CASE p = "@n_" -> ResolveName(item)
      [] p = "@k_" -> ResolveKarat(item)
      [] p = "@h_" -> ResolvePurity(item)
      [] p = "@pb_" -> ResolveBuy(item)
      [] OTHER -> ResolveSell(item)

\* the filter and the block, in terms of the lowest populated slots
ExpectedKeeps(item) ==
    \/ HasValue(item, "@n_") /\ Includes(Lowest(item, "@n_").s, NameSJC)
    \/ /\ HasValue(item, "@k_") /\ Lowest(item, "@k_").s = Karat24k
       /\ HasValue(item, "@h_") /\ Lowest(item, "@h_").s = Purity9999
ExpectedBlock(item) ==
    << <<"- ",
         IF HasValue(item, "@n_") /\ Includes(Lowest(item, "@n_").s, NameSJC)
         THEN "SJC" ELSE "Vang 24K (999.9)",
         ":">>,
       <<"  Mua: ">> \o InsertCommas(Lowest(item, "@pb_").s) \o <<" VND">>,
       <<"  Ban: ">> \o InsertCommas(Lowest(item, "@ps_").s) \o <<" VND">> >>

\* C8: for every record and each of the five fields independently, the
\* resolved value is the value under the lowest-numbered non-empty slot,
\* whatever slots the other fields are populated in, and the kept records
\* are rendered with the values resolved that way.
C8_LowestSlotPerField ==
    (stage = "out" /\ input.t = "ok" /\ input.data.hasDataList) =>
      LET items == input.data.Data
          kept == SelectSeqBy(items, {i \in 1..Len(items) : ExpectedKeeps(items[i])})
      IN /\ \A i \in 1..Len(items) : \A p \in Prefixes :
              HasValue(items[i], p) => Resolved(items[i], p) = Lowest(items[i], p)
         /\ (\A i \in 1..Len(kept) :
                HasValue(kept[i], "@pb_") /\ HasValue(kept[i], "@ps_"))
              => output = Return(JoinLines([i \in 1..Len(kept) |->
                                              ExpectedBlock(kept[i])]))

\* a kept record whose buy price is present only under slot 3, the name under
\* slot 1, rendered with the slot-3 buy price
C8_Witness ==
    /\ stage = "out"
    /\ input.t = "ok"
    /\ input.data.hasDataList
    /\ Len(input.data.Data) = 1
    /\ LET item == input.data.Data[1]
       IN /\ {i \in Slots : NonEmptyVal(item["@pb_"][i])} = {3}
          /\ {i \in Slots : NonEmptyVal(item["@n_"][i])} = {1}
          /\ output.kind = "return"
          /\ Len(output.val) = 3
          /\ output.val[2] = <<"  Mua: ", "8", "3", ",", "0", "0", "0", " VND">>

----------------------------------------------------------------------------
(* Claim checked under SpecFmt *)

DotIndex(s) ==
    IF \E i \in 1..Len(s) : s[i] = "."
    THEN CHOOSE i \in 1..Len(s) : s[i] = "." /\ \A j \in 1..(i - 1) : s[j] # "."
    ELSE Len(s) + 1
IntPart(s) == SubSeq(s, 1, DotIndex(s) - 1)
FracPart(s) == SubSeq(s, DotIndex(s) + 1, Len(s))

\* the digits d grouped in threes from the right
Group3(d) ==
    Concat([i \in 1..Len(d) |->
              IF i < Len(d) /\ (Len(d) - i) % 3 = 0 THEN <<d[i], ",">>
              ELSE <<d[i]>>])

\* C9: for every non-negative decimal input, number or string, the output's
\* part after the decimal point is the input's fractional digits unchanged,
\* the integer part is grouped in threes from the right, and a number and its
\* string form give the same output.
C9_FractionUntouched ==
    stage = "out" =>
      LET s == ToStringOf(input)
      IN /\ FracPart(output) = FracPart(s)
         /\ IntPart(output) = Group3(IntPart(s))
         /\ input.t = "number" => output = formatNumber(JsStr(s))

----------------------------------------------------------------------------
(* Claim checked under SpecDoji *)

RowComplete(row) ==
    row.Name.t = "string" /\ row.Buy.t = "string" /\ row.Sell.t = "string"

\* an answer holding the two row collections, every row with its attributes
DojiWellFormed(resp) ==
    /\ resp.t = "ok"
    /\ resp.data.wellFormed
    /\ resp.data.hasGoldList
    /\ \A i \in 1..Len(resp.data.DGPlist) : RowComplete(resp.data.DGPlist[i])
    /\ \A i \in 1..Len(resp.data.JewelryList) : RowComplete(resp.data.JewelryList[i])

\* one block per matching row: brand rows, then purity rows, in their order
ExpectedDojiBlocks(doc) ==
    [i \in 1..Len(doc.DGPlist) |->
        IF IsBrandRow(doc.DGPlist[i]) THEN RowBlock(doc.DGPlist[i]) ELSE <<>>]
    \o [i \in 1..Len(doc.JewelryList) |->
          IF IsPurityRow(doc.JewelryList[i]) THEN RowBlock(doc.JewelryList[i])
          ELSE <<>>]

\* the text block made of the blocks, one line after the other
BlockText(blocks) ==
    IF Concat(blocks) = <<>> THEN << <<>> >> ELSE Concat(blocks)

\* the empty text has no line at all; any other text has no empty line
NoBlankLine(text) == text = << <<>> >> \/ \A i \in 1..Len(text) : text[i] # <<>>

\* C10: for every pair of row collections the output is exactly one block
\* (name, buy, sell line) per DGPlist row whose name contains 'DOJI', then one
\* per JewelryList row whose name contains '24k' or '9999', in original
\* order, with no blank line, and the fetch succeeds also when the filters
\* keep no row of a collection.
C10_DojiBlocks ==
    (stage = "out" /\ DojiWellFormed(input)) =>
      /\ output.kind = "return"
      /\ output.val = BlockText(ExpectedDojiBlocks(input.data))
      /\ NoBlankLine(output.val)

====
